---- MODULE Spec2Model ----
(***************************************************************************)
(* Model of seed_selector_int.py: three ComfyUI node classes that forward  *)
(* a seed and report the seed seen on the previous execution of the same   *)
(* node, a class-level dictionary per class, the IS_CHANGED hooks, the     *)
(* INPUT_TYPES schemas and the _randint_inclusive sampler.                 *)
(***************************************************************************)
EXTENDS Integers, Sequences, FiniteSets, TLC

VARIABLES
    previous_seeds,   \* class name -> that class's _previous_seeds dictionary
    last,             \* the operation executed last: its arguments, the number of
                      \* secrets.randbelow calls it made, and its return value
    before,           \* history: previous_seeds as it was when that operation began
    passed,           \* history: class -> identifier -> seed passed by the latest call
    is_changed_old    \* host side: class -> identifier -> IS_CHANGED value of the prior run

vars == <<previous_seeds, last, before, passed, is_changed_old>>

-----------------------------------------------------------------------------
(* Values *)

INT32_MAX == 2147483647

\* Python's None.
None == "None"

\* float("nan").
NaN == "nan"

Classes == {"SeedSelectorInt", "MySeedSelectorInt", "SeedSelectorIntWithDisplay"}

\* Node identifiers the host hands out (UNIQUE_ID), and the absent identifier.
UniqueIds == {"node-1", "node-2"}
Identifiers == UniqueIds \cup {None}

\* Seeds the host passes, within the schema's [0, INT32_MAX]: the schema's
\* default, which is also the value reported when nothing was recorded, and another.
Seeds == {0, 7}

\* Values of the optional max_val field within the schema's [1, INT32_MAX].
MaxVals == {1, INT32_MAX}

\* The choices of MySeedSelectorInt's optional control_after_generate field.
ControlModes == {"fixed", "increment", "decrement", "randomize"}

\* EXTRA_PNGINFO: absent, or the run's metadata.
ExtraPnginfos == {None, "workflow"}

-----------------------------------------------------------------------------
(* Python dictionaries: a function whose DOMAIN is the set of keys *)

EmptyDict == [k \in {} |-> 0]

\* d.get(key, default)
DictGet(d, key, default) == IF key \in DOMAIN d THEN d[key] ELSE default

\* d[key] = value
DictSet(d, key, value) ==
    [k \in DOMAIN d \cup {key} |-> IF k = key THEN value ELSE d[k]]

\* int(seed): the host passes INT fields as Python ints, on which int() is a no-op.
int(seed) == seed

\* str() of an int, as an f-string formats it.
str(n) == ToString(n)

-----------------------------------------------------------------------------
(* The tracker steps every select() starts with *)

\* A variant in which the three classes share the dictionary of the first.
TrackerShared(cls) == "SeedSelectorInt"

\* The class attribute a method of class cls reaches as self._previous_seeds:
\* each class body creates its own dictionary.
TrackerOf(cls) == cls

\* previous_seed = self._previous_seeds.get(unique_id, 0)
PreviousSeed(d, unique_id) == DictGet(d, unique_id, 0)

\* Variants of the store: one that keeps the first seed of an identifier
\* (setdefault), one without the None test, one that rebinds the dictionary to
\* the new entry alone, one that clears a dictionary of more than one entry.
UpdatedSeedsOnce(d, unique_id, seed) ==
    IF unique_id # None /\ unique_id \notin DOMAIN d
    THEN DictSet(d, unique_id, int(seed)) ELSE d

UpdatedSeedsAny(d, unique_id, seed) == DictSet(d, unique_id, int(seed))

UpdatedSeedsReset(d, unique_id, seed) ==
    IF unique_id # None THEN DictSet(EmptyDict, unique_id, int(seed)) ELSE d

UpdatedSeedsEvict(d, unique_id, seed) ==
    IF unique_id # None
    THEN DictSet(IF Cardinality(DOMAIN d) > 1 THEN EmptyDict ELSE d,
                 unique_id, int(seed))
    ELSE d

\* if unique_id is not None: self._previous_seeds[unique_id] = int(seed)
UpdatedSeeds(d, unique_id, seed) ==
    IF unique_id # None THEN DictSet(d, unique_id, int(seed)) ELSE d

\* The history of the seeds passed, kept for identifiers other than None.
Prior(cls, unique_id) ==
    IF unique_id \in DOMAIN passed[cls] THEN <<passed[cls][unique_id]>> ELSE <<>>

Record(cls, unique_id, seed) ==
    IF unique_id # None
    THEN [passed EXCEPT ![cls] = DictSet(@, unique_id, seed)]
    ELSE passed

-----------------------------------------------------------------------------
(* Return values.  A Python dict return is tagged "dict", a tuple "tuple". *)

\* A variant that bounds the seed by max_val.
SeedSelectorInt_returnBounded(seed, max_val, previous_seed) ==
    LET s == IF seed > max_val THEN max_val ELSE int(seed) IN
    [type   |-> "dict",
     ui     |-> [seed |-> <<s>>, previous_seed |-> <<previous_seed>>],
     result |-> <<s, previous_seed>>]

\* SeedSelectorInt.select, the return statement
SeedSelectorInt_return(seed, max_val, previous_seed) ==
    [type   |-> "dict",
     ui     |-> [seed |-> <<int(seed)>>, previous_seed |-> <<previous_seed>>],
     result |-> <<int(seed), previous_seed>>]

\* MySeedSelectorInt.select: debug_msg
DebugMsg(s, previous_seed, control_after_generate) ==
    "seed=" \o str(s) \o " | previous=" \o str(previous_seed)
            \o " | mode=" \o control_after_generate

\* A variant whose UI payload shows the current seed in both places.
MySeedSelectorInt_returnUiSeed(seed, control_after_generate, previous_seed) ==
    LET s == int(seed)
        debug_msg == DebugMsg(s, previous_seed, control_after_generate)
    IN  [type   |-> "dict",
         ui     |-> [seed_value          |-> <<s>>,
                     previous_seed_value |-> <<s>>,
                     text                |-> <<debug_msg>>],
         result |-> <<s, previous_seed, debug_msg>>]

\* MySeedSelectorInt.select, from s = int(seed) to the return statement
MySeedSelectorInt_return(seed, control_after_generate, previous_seed) ==
    LET s == int(seed)
        debug_msg == DebugMsg(s, previous_seed, control_after_generate)
    IN  [type   |-> "dict",
         ui     |-> [seed_value          |-> <<s>>,
                     previous_seed_value |-> <<previous_seed>>,
                     text                |-> <<debug_msg>>],
         result |-> <<s, previous_seed, debug_msg>>]

\* SeedSelectorIntWithDisplay.select, from s = int(seed) to the return statement
SeedSelectorIntWithDisplay_return(seed, max_val, previous_seed) ==
    LET s == int(seed)
        seed_display == "Current: " \o str(s)
        previous_display == "Previous: " \o str(previous_seed)
    IN  [type  |-> "tuple",
         items |-> <<s, previous_seed, seed_display, previous_display>>]

-----------------------------------------------------------------------------
(* select: the execution operation of each class *)

Init ==
    /\ previous_seeds = [cls \in Classes |-> EmptyDict]
    /\ last = [op |-> "import", randbelow |-> 0]
    /\ before = [cls \in Classes |-> EmptyDict]
    /\ passed = [cls \in Classes |-> EmptyDict]
    /\ is_changed_old = [cls \in Classes |-> EmptyDict]

\* What a select() of class cls does to the state, given the value it returns.
Execute(cls, args, unique_id, seed, ret) ==
    LET t == TrackerOf(cls) IN
    /\ previous_seeds' =
           [previous_seeds EXCEPT ![t] = UpdatedSeeds(@, unique_id, seed)]
    /\ before' = previous_seeds
    /\ passed' = Record(cls, unique_id, seed)
    /\ last' = [op |-> "select", cls |-> cls, args |-> args,
                prior |-> Prior(cls, unique_id), randbelow |-> 0, ret |-> ret]

SeedSelectorInt_select(seed, max_val, unique_id, extra_pnginfo) ==
    LET cls == "SeedSelectorInt"
        previous_seed == PreviousSeed(previous_seeds[TrackerOf(cls)], unique_id)
    IN  Execute(cls,
                [seed |-> seed, max_val |-> max_val, unique_id |-> unique_id,
                 extra_pnginfo |-> extra_pnginfo],
                unique_id, seed,
                SeedSelectorInt_return(seed, max_val, previous_seed))

MySeedSelectorInt_select(seed, control_after_generate, unique_id, extra_pnginfo) ==
    LET cls == "MySeedSelectorInt"
        previous_seed == PreviousSeed(previous_seeds[TrackerOf(cls)], unique_id)
    IN  Execute(cls,
                [seed |-> seed, control_after_generate |-> control_after_generate,
                 unique_id |-> unique_id, extra_pnginfo |-> extra_pnginfo],
                unique_id, seed,
                MySeedSelectorInt_return(seed, control_after_generate, previous_seed))

SeedSelectorIntWithDisplay_select(seed, max_val, unique_id, extra_pnginfo) ==
    LET cls == "SeedSelectorIntWithDisplay"
        previous_seed == PreviousSeed(previous_seeds[TrackerOf(cls)], unique_id)
    IN  Execute(cls,
                [seed |-> seed, max_val |-> max_val, unique_id |-> unique_id,
                 extra_pnginfo |-> extra_pnginfo],
                unique_id, seed,
                SeedSelectorIntWithDisplay_return(seed, max_val, previous_seed))

-----------------------------------------------------------------------------
(* INPUT_TYPES and IS_CHANGED *)

SeedField ==
    [type |-> "INT", default |-> 0, min |-> 0, max |-> INT32_MAX, step |-> 1,
     control_after_generate |-> TRUE, display |-> "number"]

MaxValField ==
    [type |-> "INT", default |-> INT32_MAX, min |-> 1, max |-> INT32_MAX, step |-> 1]

ControlField ==
    [type |-> <<"fixed", "increment", "decrement", "randomize">>,
     default |-> "randomize"]

HiddenFields == [unique_id |-> "UNIQUE_ID", extra_pnginfo |-> "EXTRA_PNGINFO"]

\* The dictionary cls.INPUT_TYPES() returns.
InputTypes(cls) ==
    [required |-> [seed |-> SeedField],
     optional |-> IF cls = "MySeedSelectorInt"
                  THEN [control_after_generate |-> ControlField]
                  ELSE [max_val |-> MaxValField],
     hidden   |-> HiddenFields]

\* A variant that returns True.
IsChangedTrue(cls, seed) == "True"

\* cls.IS_CHANGED(seed, **kwargs): return float("nan"), in all three classes.
IsChanged(cls, seed) == NaN

\* Python's == on the values IS_CHANGED returns: a NaN equals nothing, itself
\* included.
Equal(a, b) == a # NaN /\ b # NaN /\ a = b

INPUT_TYPES(cls) ==
    /\ last' = [op |-> "INPUT_TYPES", cls |-> cls, randbelow |-> 0,
                ret |-> InputTypes(cls)]
    /\ before' = previous_seeds
    /\ UNCHANGED <<previous_seeds, passed, is_changed_old>>

IS_CHANGED(cls, seed) ==
    /\ last' = [op |-> "IS_CHANGED", cls |-> cls, seed |-> seed, randbelow |-> 0,
                ret |-> IsChanged(cls, seed)]
    /\ before' = previous_seeds
    /\ UNCHANGED <<previous_seeds, passed, is_changed_old>>

-----------------------------------------------------------------------------
(* _randint_inclusive.  Its argument is a Python int of any size: n is       *)
(* written in two limbs, n = hi * 2^31 + lo with lo in 0..INT32_MAX, so that *)
(* arguments below -2^31 and above INT32_MAX have a value here.              *)

Big(n) == [hi |-> 0, lo |-> n]

Le(a, b) == a.hi < b.hi \/ (a.hi = b.hi /\ a.lo <= b.lo)

min(a, b) == IF Le(a, b) THEN a ELSE b

max(a, b) == IF Le(b, a) THEN a ELSE b

\* A variant with the field's minimum, 1, as the lower clamp.
ClampFromOne(max_val) == max(Big(1), min(max_val, Big(INT32_MAX))).lo

\* max_val = int(max(0, min(max_val, INT32_MAX))): within 0..INT32_MAX, one limb.
Clamp(max_val) == max(Big(0), min(max_val, Big(INT32_MAX))).lo

\* The argument of the secrets.randbelow call the conditional expression makes.
RandbelowArg(max_val) ==
    IF Clamp(max_val) < INT32_MAX THEN Clamp(max_val) + 1 ELSE INT32_MAX

\* secrets.randbelow(n) returns any r with 0 <= r < n.
RandbelowSupport(n) == [lo |-> 0, hi |-> n - 1]

\* The outcomes of randbelow(n) followed here: the two least and the two greatest.
Draws(n) == {r \in {0, 1, n - 2, n - 1} : 0 <= r /\ r < n}

_randint_inclusive(max_val) ==
    LET n == RandbelowArg(max_val) IN
    /\ \E r \in Draws(n) :
           last' = [op |-> "_randint_inclusive", max_val |-> max_val,
                    randbelow |-> 1, support |-> RandbelowSupport(n), ret |-> r]
    /\ before' = previous_seeds
    /\ UNCHANGED <<previous_seeds, passed, is_changed_old>>

\* Arguments near 0 and near INT32_MAX, in every limb from -MaxLimb to MaxLimb.
MaxSmall == 4

MaxLimb == 2

SamplerArgs ==
    [hi : (0 - MaxLimb)..MaxLimb,
     lo : (0..MaxSmall) \cup {INT32_MAX - d : d \in 0..MaxSmall}]

-----------------------------------------------------------------------------
(* The host's caching rule: before a run it calls IS_CHANGED and executes   *)
(* the node again unless the value equals the one of the node's prior run.  *)

\* select() of class cls with the optional inputs left at their defaults.
SelectDefaults(cls, seed, unique_id) ==
    CASE cls = "SeedSelectorInt" ->
             SeedSelectorInt_select(seed, INT32_MAX, unique_id, None)
      [] cls = "MySeedSelectorInt" ->
             MySeedSelectorInt_select(seed, "randomize", unique_id, None)
      [] cls = "SeedSelectorIntWithDisplay" ->
             SeedSelectorIntWithDisplay_select(seed, INT32_MAX, unique_id, None)

HostRun(cls, unique_id, seed) ==
    LET is_changed == IsChanged(cls, seed)
        cached == /\ unique_id \in DOMAIN is_changed_old[cls]
                  /\ Equal(is_changed, is_changed_old[cls][unique_id])
    IN  IF cached
        THEN /\ last' = [op |-> "cached", cls |-> cls, randbelow |-> 0,
                         args |-> [seed |-> seed, unique_id |-> unique_id]]
             /\ before' = previous_seeds
             /\ UNCHANGED <<previous_seeds, passed, is_changed_old>>
        ELSE /\ SelectDefaults(cls, seed, unique_id)
             /\ is_changed_old' =
                    [is_changed_old EXCEPT ![cls] = DictSet(@, unique_id, is_changed)]

SeedSelectorIntCall ==
    \E seed \in Seeds, max_val \in MaxVals, unique_id \in Identifiers,
       extra_pnginfo \in ExtraPnginfos :
        /\ SeedSelectorInt_select(seed, max_val, unique_id, extra_pnginfo)
        /\ UNCHANGED is_changed_old

MySeedSelectorIntCall ==
    \E seed \in Seeds, control_after_generate \in ControlModes,
       unique_id \in Identifiers, extra_pnginfo \in ExtraPnginfos :
        /\ MySeedSelectorInt_select(seed, control_after_generate, unique_id,
                                    extra_pnginfo)
        /\ UNCHANGED is_changed_old

SeedSelectorIntWithDisplayCall ==
    \E seed \in Seeds, max_val \in MaxVals, unique_id \in Identifiers,
       extra_pnginfo \in ExtraPnginfos :
        /\ SeedSelectorIntWithDisplay_select(seed, max_val, unique_id, extra_pnginfo)
        /\ UNCHANGED is_changed_old

Next ==
    \/ SeedSelectorIntCall
    \/ MySeedSelectorIntCall
    \/ SeedSelectorIntWithDisplayCall
    \/ \E cls \in Classes : INPUT_TYPES(cls)
    \/ \E cls \in Classes, seed \in Seeds : IS_CHANGED(cls, seed)
    \/ \E max_val \in MaxVals : _randint_inclusive(Big(max_val))

Spec == Init /\ [][Next]_vars

\* The sampler alone, on arguments below, within and above [0, INT32_MAX].
SamplerNext == \E max_val \in SamplerArgs : _randint_inclusive(max_val)

SpecSampler == Init /\ [][SamplerNext]_vars

\* The nodes run by the host, each node under the identifier the host gave it.
HostNext == \E cls \in Classes, unique_id \in UniqueIds, seed \in Seeds :
                HostRun(cls, unique_id, seed)

SpecHost == Init /\ [][HostNext]_vars

-----------------------------------------------------------------------------
(* Properties *)

IsSelect == last.op = "select"

IsSampler == last.op = "_randint_inclusive"

\* The output tuple the host takes from a return value: the "result" of a
\* dict, or the tuple itself.
OutputTuple(ret) == IF ret.type = "dict" THEN ret.result ELSE ret.items

Current(ret) == OutputTuple(ret)[1]

Previous(ret) == OutputTuple(ret)[2]

\* C1: within one class, a select() with an identifier other than None returns as
\* previous seed the seed passed by the latest earlier select() of that class
\* with that identifier, and 0 when there was none, whatever was executed for
\* other identifiers in between.
C1_PreviousIsSeedOfPriorCall ==
    (IsSelect /\ last.args.unique_id # None) =>
        Previous(last.ret) = IF last.prior = <<>> THEN 0 ELSE last.prior[1]

\* A second call for node-1 that returns the 7 passed by the first, after a
\* call for node-2 of the same class.
C1_Witness ==
    /\ IsSelect
    /\ last.args.unique_id = "node-1"
    /\ last.args.seed = 0
    /\ last.prior = <<7>>
    /\ Previous(last.ret) = 7
    /\ "node-2" \in DOMAIN passed[last.cls]

\* C2: for every M in 1..INT32_MAX, INT32_MAX included, both 0 and M are among
\* the values _randint_inclusive(M) can return.
C2_InclusiveBounds ==
    (IsSampler /\ last.max_val.hi = 0 /\ last.max_val.lo >= 1) =>
        /\ last.support.lo <= 0 /\ 0 <= last.support.hi
        /\ last.support.lo <= last.max_val.lo
        /\ last.max_val.lo <= last.support.hi

\* C3 as claimed: the three classes record into one mapping, so a select() with
\* identifier K right after a select() that recorded S for K returns S, whichever
\* classes the two belong to.
C3_OneSharedTracker ==
    [][(/\ last.op = "select"
        /\ last'.op = "select"
        /\ last.args.unique_id # None
        /\ last'.args.unique_id = last.args.unique_id)
       => Previous(last'.ret) = last.args.seed]_vars

\* C3 as amended: each class has a mapping of its own.  A select() reads the
\* previous seed from its own class's mapping and leaves the mappings of the
\* other two classes as they were.
C3_OneTrackerPerClass ==
    IsSelect =>
        /\ Previous(last.ret) = DictGet(before[last.cls], last.args.unique_id, 0)
        /\ \A cls \in Classes \ {last.cls} : previous_seeds[cls] = before[cls]

\* MySeedSelectorInt's first call for node-1 returns 0 although SeedSelectorInt
\* has recorded 7 for node-1.
C3_Witness ==
    /\ IsSelect
    /\ last.cls = "MySeedSelectorInt"
    /\ last.args.unique_id = "node-1"
    /\ "node-1" \in DOMAIN before["SeedSelectorInt"]
    /\ before["SeedSelectorInt"]["node-1"] = 7
    /\ last.prior = <<>>
    /\ Previous(last.ret) = 0

\* The current and the previous seed of a UI payload, under either class's keys.
UiSeed(ui) == IF "seed" \in DOMAIN ui THEN ui.seed ELSE ui.seed_value

UiPreviousSeed(ui) ==
    IF "previous_seed" \in DOMAIN ui THEN ui.previous_seed
    ELSE ui.previous_seed_value

\* C4 as claimed: every class's select() returns its output tuple together with
\* a UI payload that carries the current and the previous seed of the tuple.
C4_EveryClassReturnsUi ==
    IsSelect =>
        /\ last.ret.type = "dict"
        /\ UiSeed(last.ret.ui) = <<Current(last.ret)>>
        /\ UiPreviousSeed(last.ret.ui) = <<Previous(last.ret)>>

\* C4 as amended: SeedSelectorInt and MySeedSelectorInt return the output tuple
\* (seed passed, previous seed; the debug string in MySeedSelectorInt) with a UI
\* payload of the same values; SeedSelectorIntWithDisplay returns the bare tuple
\* (seed passed, previous seed, "Current: S", "Previous: P") and no UI payload.
C4_OutputsPerClass ==
    IsSelect =>
        LET s == last.args.seed
            p == DictGet(before[last.cls], last.args.unique_id, 0)
            ret == last.ret
        IN  CASE last.cls = "SeedSelectorInt" ->
                     /\ ret.type = "dict"
                     /\ ret.result = <<s, p>>
                     /\ ret.ui = [seed |-> <<s>>, previous_seed |-> <<p>>]
              [] last.cls = "MySeedSelectorInt" ->
                     /\ ret.type = "dict"
                     /\ Len(ret.result) = 3
                     /\ ret.result[1] = s /\ ret.result[2] = p
                     /\ ret.result[3] = "seed=" \o ToString(s) \o " | previous="
                            \o ToString(p) \o " | mode="
                            \o last.args.control_after_generate
                     /\ DOMAIN ret.ui = {"seed_value", "previous_seed_value", "text"}
                     /\ ret.ui.seed_value = <<s>>
                     /\ ret.ui.previous_seed_value = <<p>>
                     /\ ret.ui.text = <<ret.result[3]>>
              [] last.cls = "SeedSelectorIntWithDisplay" ->
                     /\ ret.type = "tuple"
                     /\ Len(ret.items) = 4
                     /\ ret.items[1] = s /\ ret.items[2] = p
                     /\ ret.items[3] = "Current: " \o ToString(s)
                     /\ ret.items[4] = "Previous: " \o ToString(p)

\* SeedSelectorIntWithDisplay returns the bare tuple for seed 0 after seed 7.
C4_Witness ==
    /\ IsSelect
    /\ last.cls = "SeedSelectorIntWithDisplay"
    /\ last.ret = [type |-> "tuple",
                   items |-> <<0, 7, "Current: 0", "Previous: 7">>]

\* C5: a select() whose identifier is None returns previous seed 0 and leaves
\* every mapping as it was, whatever has been recorded for other identifiers.
C5_NoneIsNotTracked ==
    (IsSelect /\ last.args.unique_id = None) =>
        /\ Previous(last.ret) = 0
        /\ previous_seeds = before
        /\ \A cls \in Classes : None \notin DOMAIN previous_seeds[cls]

\* A call with None and seed 7 in a class that has recorded both identifiers.
C5_Witness ==
    /\ IsSelect
    /\ last.args.unique_id = None
    /\ last.args.seed = 7
    /\ DOMAIN previous_seeds[last.cls] = UniqueIds
    /\ \E k \in UniqueIds : previous_seeds[last.cls][k] = 7

\* C6: a select() with identifier K1 leaves the entry of every other identifier
\* K2 as it was (present or absent, and its value), so the previous seed a later
\* call reports for K2 is what it would have been without the call for K1.
C6_OtherIdentifiersUntouched ==
    IsSelect =>
        \A k \in Identifiers \ {last.args.unique_id} :
            LET d == previous_seeds[last.cls]
                b == before[last.cls]
            IN  /\ (k \in DOMAIN d) = (k \in DOMAIN b)
                /\ (k \in DOMAIN b => d[k] = b[k])
                /\ PreviousSeed(d, k) = PreviousSeed(b, k)

\* A call for node-1 with seed 0 in a class that holds 7 for node-2.
C6_Witness ==
    /\ IsSelect
    /\ last.args.unique_id = "node-1"
    /\ last.args.seed = 0
    /\ "node-2" \in DOMAIN before[last.cls]
    /\ before[last.cls]["node-2"] = 7
    /\ previous_seeds[last.cls]["node-2"] = 7

\* C7: IS_CHANGED returns a value that equals no value of an earlier run, so a
\* host that reuses a node's cached result only when the two values are equal
\* never does: every run executes select() and records the seed, also when the
\* seed is the one of the node's prior run.
C7_HostNeverSkips ==
    /\ last.op # "cached"
    /\ \A cls \in Classes, seed \in Seeds :
          \A k \in DOMAIN is_changed_old[cls] :
              ~Equal(IsChanged(cls, seed), is_changed_old[cls][k])
    /\ IsSelect =>
          /\ last.args.unique_id \in DOMAIN previous_seeds[last.cls]
          /\ previous_seeds[last.cls][last.args.unique_id] = last.args.seed
          /\ last.args.unique_id \in DOMAIN is_changed_old[last.cls]

\* A second run of a node with the seed of its first run, 7, has executed.
C7_Witness ==
    /\ IsSelect
    /\ last.args.seed = 7
    /\ last.prior = <<7>>
    /\ Previous(last.ret) = 7

\* C8: _randint_inclusive(M) returns, for every integer M, a value in [0, c]
\* with c = min(max(M, 0), INT32_MAX), and for M > INT32_MAX the values it can
\* return are those it can return for M = INT32_MAX.
C8_ClampedBound ==
    IsSampler =>
        LET c == min(max(last.max_val, Big(0)), Big(INT32_MAX)) IN
        /\ c.hi = 0
        /\ 0 <= last.ret /\ last.ret <= c.lo
        /\ 0 <= last.support.lo /\ last.support.hi <= c.lo
        /\ (~Le(last.max_val, Big(INT32_MAX)) =>
               last.support = RandbelowSupport(RandbelowArg(Big(INT32_MAX))))

\* A draw of INT32_MAX - 1 for an argument of 2^31 + 4 or more.
C8_Witness ==
    /\ IsSampler
    /\ last.max_val.hi >= 1
    /\ last.max_val.lo = MaxSmall
    /\ last.ret = INT32_MAX - 1

\* C9: the mappings are empty at import; INPUT_TYPES, IS_CHANGED and
\* _randint_inclusive leave them as they are; a select() with an identifier
\* reads the prior value and then sets that identifier's entry, and nothing else,
\* to the seed it received; no operation removes an entry.
C9_OnlySelectMutates ==
    /\ last.op = "import" => \A cls \in Classes : DOMAIN previous_seeds[cls] = {}
    /\ last.op \in {"INPUT_TYPES", "IS_CHANGED", "_randint_inclusive"} =>
           previous_seeds = before
    /\ (IsSelect /\ last.args.unique_id # None) =>
           /\ previous_seeds =
                  [before EXCEPT ![last.cls] =
                       DictSet(@, last.args.unique_id, last.args.seed)]
           /\ Previous(last.ret) = DictGet(before[last.cls], last.args.unique_id, 0)
    /\ \A cls \in Classes : DOMAIN before[cls] \subseteq DOMAIN previous_seeds[cls]

\* A select() that overwrote 7 by 0 for node-1 while node-2 stayed recorded.
C9_Witness ==
    /\ IsSelect
    /\ last.args.unique_id = "node-1"
    /\ DOMAIN before[last.cls] = UniqueIds
    /\ DOMAIN previous_seeds[last.cls] = UniqueIds
    /\ before[last.cls]["node-1"] = 7
    /\ previous_seeds[last.cls]["node-1"] = 0

\* The optional inputs of class cls's select(), and its return value for them.
Options(cls) ==
    IF cls = "MySeedSelectorInt" THEN ControlModes ELSE MaxVals

ReturnOf(cls, seed, option, previous_seed) ==
    CASE cls = "SeedSelectorInt" ->
             SeedSelectorInt_return(seed, option, previous_seed)
      [] cls = "MySeedSelectorInt" ->
             MySeedSelectorInt_return(seed, option, previous_seed)
      [] cls = "SeedSelectorIntWithDisplay" ->
             SeedSelectorIntWithDisplay_return(seed, option, previous_seed)

\* C10: select() returns the seed it was passed, and neither max_val,
\* extra_pnginfo nor control_after_generate has an effect on the seed returned,
\* the previous seed returned or the mappings: a run from the same mappings with
\* the same identifier and seed and any other optional inputs returns the same
\* two values (in MySeedSelectorInt the whole return value but for the mode
\* named at the end of the debug string) and leaves the same mappings; select()
\* draws nothing from the random source.
C10_OptionsDoNotInterfere ==
    IsSelect =>
        LET cls == last.cls
            s == last.args.seed
            k == last.args.unique_id
            p == PreviousSeed(before[TrackerOf(cls)], k)
        IN  /\ Current(last.ret) = s
            /\ last.randbelow = 0
            /\ previous_seeds =
                   [before EXCEPT ![TrackerOf(cls)] = UpdatedSeeds(@, k, s)]
            /\ \A option \in Options(cls) :
                   LET other == ReturnOf(cls, s, option, p) IN
                   /\ Current(other) = Current(last.ret)
                   /\ Previous(other) = Previous(last.ret)
                   /\ cls # "MySeedSelectorInt" => other = last.ret
                   /\ cls = "MySeedSelectorInt" =>
                          /\ other.ui.seed_value = last.ret.ui.seed_value
                          /\ other.ui.previous_seed_value =
                                 last.ret.ui.previous_seed_value
                          /\ other.ui.text = <<other.result[3]>>
                          /\ other.result[3] =
                                 "seed=" \o ToString(s) \o " | previous="
                                     \o ToString(Previous(last.ret))
                                     \o " | mode=" \o option

\* A call with max_val = 1 and run metadata that returned seed 7 unchanged.
C10_Witness ==
    /\ IsSelect
    /\ last.cls = "SeedSelectorInt"
    /\ last.args.max_val = 1
    /\ last.args.extra_pnginfo = "workflow"
    /\ last.args.seed = 7
    /\ Current(last.ret) = 7
    /\ last.prior = <<7>>

====
